---------------------------- MODULE Spec2Model ----------------------------
(***************************************************************************)
(* Model of main.ipynb: the adversarial training loop (generator phase,    *)
(* discriminator phase, reporting) and the post-processing upscaler.       *)
(*                                                                         *)
(* Tensors are modelled by what autograd needs of them: the set of leaf    *)
(* parameters their computation graph reaches (deps), their batch size,    *)
(* the batch-step that made them and the parameter values they read.       *)
(* A backward pass deposits a gradient on every leaf in the loss's deps    *)
(* and on nothing else; an optimizer step moves the parameters of its own  *)
(* parameter group against their accumulated gradient.                     *)
(***************************************************************************)
EXTENDS Integers, Sequences, FiniteSets

VARIABLES
    pc,                 \* position in the training cell
    dataset_len,        \* len(train_data)
    epoch, i,           \* loop indices of the two for statements
    iters,              \* number of loop bodies entered so far
    data_size,          \* number of images in the current real batch
    param,              \* value of every network parameter
    grad,               \* .grad of every network parameter
    gen_steps,          \* gen_optimizer's step count
    dis_steps,          \* dis_optimizer's step count
    gen_data,           \* the synthetic batch
    generator_loss,
    discriminator_loss,
    dis_at_fetch,       \* discriminator parameters when the batch was drawn
    dis_losses, gen_losses,
    console,            \* printed status lines
    files,              \* artifact files written, in order
    k,                  \* report counter
    error,              \* the exception that ended the run, if any
    up_pc,              \* position in the upscaler cell
    dir_files,          \* os.listdir(directory) with each file's content
    file_idx,           \* index of the file the directory loop is at
    up_done,            \* indices of the files upscaler returned from
    up_call             \* a direct call of upscaler: arguments and result

train_vars == <<pc, dataset_len, epoch, i, iters, data_size, param, grad,
                gen_steps, dis_steps, gen_data, generator_loss,
                discriminator_loss, dis_at_fetch, dis_losses, gen_losses,
                console, files, k, error>>
up_vars == <<up_pc, dir_files, file_idx, up_done, up_call>>
vars == <<train_vars, up_vars>>

---------------------------------------------------------------------------
(* Bounds of the model *)

\* epochs of a run (the notebook configures 100)
NumEpochs == 2
\* largest number of batches per epoch of the short datasets
MaxBatches == 2
\* batches per epoch beyond the report cadence in the long dataset
ExtraBatches == 2

\* largest height and width of an image handed to upscaler directly
MaxDim == 2
\* largest factor n, m handed to upscaler directly
MaxFactor == 3
\* largest number of files in the directory
MaxFiles == 3

(* Program constants *)
DefaultN == 3
DefaultM == 3
MaxByte == 255
BatchSize == 60
ImgPixels == 784
ReportEvery == 250

---------------------------------------------------------------------------
(* Networks, parameters and optimizers *)

GenParams == {"g1", "g2"}
DisParams == {"d1", "d2"}
Params == GenParams \cup DisParams

\* torch.optim.Adam over both networks' parameters
GenOptimParams_Shared == Params

\* the parameter group of each optimizer
GenOptimParams == GenParams
DisOptimParams == DisParams

InitParam == [p \in Params |-> 0]
NoGrad == [val |-> 0, from |-> {}]
NoTensor == [deps |-> {}, size |-> 0, made |-> 0]
NoLoss == [deps |-> {}, made |-> 0, dis_seen |-> InitParam]

\* gradient components autograd can produce (magnitudes abstracted to 0 and 1)
GradVals == {0, 1}
\* with the random seed fixed
SeededGradVals == {1}

\* gradients of a loss over its leaves: the derivative of the cross entropy
\* through the sigmoid does not vanish on a whole network at once
Gradients(deps, GV) ==
    {g \in [deps -> GV] :
        /\ (deps \cap GenParams # {}) => \E p \in deps \cap GenParams : g[p] # 0
        /\ (deps \cap DisParams # {}) => \E p \in deps \cap DisParams : g[p] # 0}

\* optimizer.zero_grad()
ZeroGrad(group) == [p \in Params |-> IF p \in group THEN NoGrad ELSE grad[p]]

\* loss.backward(): accumulate into .grad of every leaf of the graph; "from"
\* records which loss of which batch-step each contribution came from
Backward(loss, tag, g) ==
    [p \in Params |->
        IF p \in loss.deps
        THEN [val |-> grad[p].val + g[p], from |-> grad[p].from \cup {tag}]
        ELSE grad[p]]

\* optimizer.step(): every parameter of the group moves against its
\* accumulated gradient (Adam's moment estimates and step size are left out;
\* a parameter whose gradient is zero stays where it is)
OptimStep(group) ==
    [p \in Params |-> IF p \in group THEN param[p] - grad[p].val ELSE param[p]]

\* gen_data with .detach() left out
Detach_Missing(t) == t

\* tensor.detach(): same data, cut from the graph
Detach(t) == [t EXCEPT !.deps = {}]

\* Discriminator.forward accepting any batch size
DiscriminatorForwardOk_AnySize(n) == TRUE

\* Discriminator.forward: z.view(batch_size, -1) then Linear(28*28, 512)
DiscriminatorForwardOk(n) ==
    /\ (n * ImgPixels) % BatchSize = 0
    /\ (n * ImgPixels) \div BatchSize = ImgPixels

---------------------------------------------------------------------------
(* The data loader *)

\* len(dataloader): the last batch may be short
NumBatches == (dataset_len + BatchSize - 1) \div BatchSize

BatchLen(b) ==
    IF (b + 1) * BatchSize <= dataset_len THEN BatchSize
    ELSE dataset_len - b * BatchSize

\* the cadence counted over the whole run
ReportDue_Global == (epoch * NumBatches + i) % ReportEvery = 0

\* if i % 250 == 0
ReportDue == i % ReportEvery = 0


---------------------------------------------------------------------------
(* The training cell *)

\* the discriminator update placed before the generator's backward pass
BodyOrder_DisBeforeGenStep ==
    <<"gen_zero_grad", "gen_forward",
      "dis_zero_grad", "dis_forward", "dis_backward", "dis_step",
      "gen_backward", "gen_step">>

\* dis_optimizer.step() left out
BodyOrder_NoDisStep ==
    <<"gen_zero_grad", "gen_forward", "gen_backward", "gen_step",
      "dis_zero_grad", "dis_forward", "dis_backward">>

\* dis_optimizer.zero_grad() left out
BodyOrder_NoDisZeroGrad ==
    <<"gen_zero_grad", "gen_forward", "gen_backward", "gen_step",
      "dis_forward", "dis_backward", "dis_step">>

\* the statements of the loop body up to the reporting, in program order
BodyOrder ==
    <<"gen_zero_grad", "gen_forward", "gen_backward", "gen_step",
      "dis_zero_grad", "dis_forward", "dis_backward", "dis_step">>

PosOf(p) == CHOOSE n \in 1..Len(BodyOrder) : BodyOrder[n] = p
After(p) == IF PosOf(p) = Len(BodyOrder) THEN "report" ELSE BodyOrder[PosOf(p) + 1]

DisValues == [p \in DisParams |-> param[p]]
GenValues == [p \in GenParams |-> param[p]]

TrainInit(lens) ==
    /\ pc = "loop"
    /\ dataset_len \in lens
    /\ epoch = 0
    /\ i = 0
    /\ iters = 0
    /\ data_size = 0
    /\ param = InitParam
    /\ grad = [p \in Params |-> NoGrad]
    /\ gen_steps = 0
    /\ dis_steps = 0
    /\ gen_data = NoTensor
    /\ generator_loss = NoLoss
    /\ discriminator_loss = NoLoss
    /\ dis_at_fetch = [p \in DisParams |-> InitParam[p]]
    /\ dis_losses = <<>>
    /\ gen_losses = <<>>
    /\ console = <<>>
    /\ files = <<>>
    /\ k = 0
    /\ error = "none"

\* for epoch in range(num_epochs): for i, (data, _) in enumerate(dataloader):
LoopHead ==
    /\ pc = "loop"
    /\ IF i < NumBatches
       THEN /\ data_size' = BatchLen(i)
            /\ iters' = iters + 1
            /\ dis_at_fetch' = DisValues
            /\ pc' = BodyOrder[1]
            /\ UNCHANGED <<epoch, i>>
       ELSE IF epoch + 1 < NumEpochs
       THEN /\ epoch' = epoch + 1
            /\ i' = 0
            /\ data_size' = BatchLen(0)
            /\ iters' = iters + 1
            /\ dis_at_fetch' = DisValues
            /\ pc' = BodyOrder[1]
       ELSE /\ pc' = "done"
            /\ UNCHANGED <<epoch, i, data_size, iters, dis_at_fetch>>
    /\ UNCHANGED <<dataset_len, param, grad, gen_steps, dis_steps, gen_data,
                   generator_loss, discriminator_loss, dis_losses, gen_losses,
                   console, files, k, error, up_vars>>

\* gen_optimizer.zero_grad()
GenZeroGrad ==
    /\ pc = "gen_zero_grad"
    /\ grad' = ZeroGrad(GenOptimParams)
    /\ pc' = After("gen_zero_grad")
    /\ UNCHANGED <<dataset_len, epoch, i, iters, data_size, param, gen_steps,
                   dis_steps, gen_data, generator_loss, discriminator_loss,
                   dis_at_fetch, dis_losses, gen_losses, console, files, k,
                   error, up_vars>>

\* z = ...; gen_data = gen_net(z);
\* generator_loss = criterion(dis_net(gen_data), true_label)
GenForward ==
    /\ pc = "gen_forward"
    /\ LET out == [deps |-> GenParams, size |-> BatchSize, made |-> iters]
       IN /\ gen_data' = out
          /\ IF DiscriminatorForwardOk(out.size)
             THEN /\ generator_loss' = [deps |-> out.deps \cup DisParams,
                                        made |-> iters,
                                        dis_seen |-> DisValues]
                  /\ pc' = After("gen_forward")
                  /\ error' = error
             ELSE /\ pc' = "aborted"
                  /\ error' = "shape"
                  /\ UNCHANGED generator_loss
    /\ UNCHANGED <<dataset_len, epoch, i, iters, data_size, param, grad,
                   gen_steps, dis_steps, discriminator_loss, dis_at_fetch,
                   dis_losses, gen_losses, console, files, k, up_vars>>

\* generator_loss.backward(retain_graph=True)
GenBackward(GV) ==
    /\ pc = "gen_backward"
    /\ \E g \in Gradients(generator_loss.deps, GV) :
          grad' = Backward(generator_loss, <<"gen", generator_loss.made>>, g)
    /\ pc' = After("gen_backward")
    /\ UNCHANGED <<dataset_len, epoch, i, iters, data_size, param, gen_steps,
                   dis_steps, gen_data, generator_loss, discriminator_loss,
                   dis_at_fetch, dis_losses, gen_losses, console, files, k,
                   error, up_vars>>

\* gen_optimizer.step()
GenStep ==
    /\ pc = "gen_step"
    /\ param' = OptimStep(GenOptimParams)
    /\ gen_steps' = gen_steps + 1
    /\ pc' = After("gen_step")
    /\ UNCHANGED <<dataset_len, epoch, i, iters, data_size, grad, dis_steps,
                   gen_data, generator_loss, discriminator_loss, dis_at_fetch,
                   dis_losses, gen_losses, console, files, k, error, up_vars>>

\* dis_optimizer.zero_grad()
DisZeroGrad ==
    /\ pc = "dis_zero_grad"
    /\ grad' = ZeroGrad(DisOptimParams)
    /\ pc' = After("dis_zero_grad")
    /\ UNCHANGED <<dataset_len, epoch, i, iters, data_size, param, gen_steps,
                   dis_steps, gen_data, generator_loss, discriminator_loss,
                   dis_at_fetch, dis_losses, gen_losses, console, files, k,
                   error, up_vars>>

\* real_loss = criterion(dis_net(data), true_label)
\* fake_loss = criterion(dis_net(gen_data.detach()), false_label)
\* discriminator_loss = (real_loss + fake_loss)
DisForward ==
    /\ pc = "dis_forward"
    /\ LET fake == Detach(gen_data)
       IN IF DiscriminatorForwardOk(data_size) /\ DiscriminatorForwardOk(fake.size)
          THEN /\ discriminator_loss' = [deps |-> DisParams \cup fake.deps,
                                         made |-> iters,
                                         dis_seen |-> DisValues]
               /\ pc' = After("dis_forward")
               /\ error' = error
          ELSE /\ pc' = "aborted"
               /\ error' = "shape"
               /\ UNCHANGED discriminator_loss
    /\ UNCHANGED <<dataset_len, epoch, i, iters, data_size, param, grad,
                   gen_steps, dis_steps, gen_data, generator_loss, dis_at_fetch,
                   dis_losses, gen_losses, console, files, k, up_vars>>

\* discriminator_loss.backward()
DisBackward(GV) ==
    /\ pc = "dis_backward"
    /\ \E g \in Gradients(discriminator_loss.deps, GV) :
          grad' = Backward(discriminator_loss,
                           <<"dis", discriminator_loss.made>>, g)
    /\ pc' = After("dis_backward")
    /\ UNCHANGED <<dataset_len, epoch, i, iters, data_size, param, gen_steps,
                   dis_steps, gen_data, generator_loss, discriminator_loss,
                   dis_at_fetch, dis_losses, gen_losses, console, files, k,
                   error, up_vars>>

\* dis_optimizer.step()
DisStep ==
    /\ pc = "dis_step"
    /\ param' = OptimStep(DisOptimParams)
    /\ dis_steps' = dis_steps + 1
    /\ pc' = After("dis_step")
    /\ UNCHANGED <<dataset_len, epoch, i, iters, data_size, grad, gen_steps,
                   gen_data, generator_loss, discriminator_loss, dis_at_fetch,
                   dis_losses, gen_losses, console, files, k, error, up_vars>>

\* the end of the loop body: enumerate moves to the next batch
NextIteration ==
    /\ i' = i + 1
    /\ pc' = "loop"

\* k left as it is after a report
KAfterReport_Stuck == k

\* k += 1
KAfterReport == k + 1

\* first "if i % 250 == 0": print the status line, append both losses
ReportLog ==
    /\ pc = "report"
    /\ IF ReportDue
       THEN /\ console' = Append(console, <<epoch, i>>)
            /\ dis_losses' = Append(dis_losses, discriminator_loss.made)
            /\ gen_losses' = Append(gen_losses, generator_loss.made)
            /\ pc' = "save_grid"
            /\ i' = i
       ELSE /\ NextIteration
            /\ UNCHANGED <<console, dis_losses, gen_losses>>
    /\ UNCHANGED <<dataset_len, epoch, iters, data_size, param, grad,
                   gen_steps, dis_steps, gen_data, generator_loss,
                   discriminator_loss, dis_at_fetch, files, k, error, up_vars>>

\* second "if i % 250 == 0": save_image(gen_data.data[:36], ".../im<k>.png")
SaveGrid ==
    /\ pc = "save_grid"
    /\ \/ /\ files' = Append(files, <<"generated_images/im", k>>)
          /\ pc' = "save_plot"
          /\ error' = error
       \/ /\ pc' = "aborted"
          /\ error' = "io"
          /\ files' = files
    /\ UNCHANGED <<dataset_len, epoch, i, iters, data_size, param, grad,
                   gen_steps, dis_steps, gen_data, generator_loss,
                   discriminator_loss, dis_at_fetch, dis_losses, gen_losses,
                   console, k, up_vars>>

\* xaxis = [250*i for i in range(k+1)]; axs[..].plot(xaxis, losses);
\* plt.savefig(".../loss<k>.png"); k += 1
SavePlot ==
    /\ pc = "save_plot"
    /\ IF Len(dis_losses) # k + 1 \/ Len(gen_losses) # k + 1
       THEN /\ pc' = "aborted"
            /\ error' = "shape"
            /\ UNCHANGED <<files, k, i>>
       ELSE \/ /\ files' = Append(files, <<"loss_images/loss", k>>)
               /\ k' = KAfterReport
               /\ NextIteration
               /\ error' = error
            \/ /\ pc' = "aborted"
               /\ error' = "io"
               /\ UNCHANGED <<files, k, i>>
    /\ UNCHANGED <<dataset_len, epoch, iters, data_size, param, grad,
                   gen_steps, dis_steps, gen_data, generator_loss,
                   discriminator_loss, dis_at_fetch, dis_losses, gen_losses,
                   console, up_vars>>

Step(GV) ==
    \/ LoopHead
    \/ GenZeroGrad
    \/ GenForward
    \/ GenBackward(GV)
    \/ GenStep
    \/ DisZeroGrad
    \/ DisForward
    \/ DisBackward(GV)
    \/ DisStep
    \/ ReportLog
    \/ SaveGrid
    \/ SavePlot

\* the upscaler cell has not run
UpIdle ==
    /\ up_pc = "idle"
    /\ dir_files = <<>>
    /\ file_idx = 0
    /\ up_done = {}
    /\ up_call = <<>>

\* datasets of a few batches, with and without a short last batch
ShortLens ==
    {b * BatchSize : b \in 1..MaxBatches}
        \cup {b * BatchSize - BatchSize \div 2 : b \in 1..MaxBatches}

\* a dataset whose epochs are longer than the report cadence
LongLens == {(ReportEvery + ExtraBatches) * BatchSize}

Init == TrainInit(ShortLens) /\ UpIdle
Next == Step(GradVals)
Spec == Init /\ [][Next]_vars

InitCadence == TrainInit(LongLens) /\ UpIdle
NextCadence == Step(SeededGradVals)
SpecCadence == InitCadence /\ [][NextCadence]_vars

---------------------------------------------------------------------------
(* Properties of the training cell *)

GenPhase == {"gen_zero_grad", "gen_forward", "gen_backward", "gen_step"}
DisPhase == {"dis_zero_grad", "dis_forward", "dis_backward", "dis_step"}
InitGen == [p \in GenParams |-> InitParam[p]]
InitDis == [p \in DisParams |-> InitParam[p]]
CeilDiv(a, b) == (a + b - 1) \div b
TotalSteps == NumEpochs * NumBatches

\* C1: no step taken in the generator phase changes a discriminator
\* parameter and no step taken in the discriminator phase changes a generator
\* parameter; discriminator parameters change only at dis_optimizer.step();
\* the first gen_optimizer.step() leaves the generator parameters different
\* from their initial values and the discriminator parameters at theirs.
C1_ParameterOwnership ==
    [][ /\ (pc \in GenPhase => DisValues' = DisValues)
        /\ (pc \in DisPhase => GenValues' = GenValues)
        /\ (DisValues' # DisValues => pc = "dis_step")
        /\ (pc = "gen_step" /\ iters = 1
                => GenValues' # InitGen /\ DisValues' = InitDis) ]_vars

C1_Witness ==
    /\ iters = 1
    /\ pc = "report"
    /\ GenValues # InitGen
    /\ DisValues # InitDis

\* C2: the graph of discriminator_loss reaches no generator parameter, and
\* no gradient held by a generator parameter was deposited by a backward
\* pass of discriminator_loss.
C2_Detachment ==
    /\ discriminator_loss.deps \cap GenParams = {}
    /\ \A p \in GenParams : \A t \in grad[p].from : t[1] # "dis"

C2_Witness ==
    /\ pc = "dis_step"
    /\ \A p \in DisParams : <<"dis", iters>> \in grad[p].from
    /\ \E p \in GenParams : grad[p].val # 0

\* C3: the generator loss of a step is computed, and its gradient taken,
\* with the discriminator parameters as they stood when the batch was drawn;
\* gen_optimizer.step() of step s runs after s-1 discriminator updates and
\* dis_optimizer.step() of step s runs after s generator updates.
C3_ReadBeforeWrite ==
    /\ (pc \in {"gen_backward", "gen_step"}
            => /\ generator_loss.made = iters
               /\ generator_loss.dis_seen = dis_at_fetch
               /\ DisValues = dis_at_fetch)
    /\ (pc = "gen_step" => gen_steps = iters - 1 /\ dis_steps = iters - 1)
    /\ (pc = "dis_step" => gen_steps = iters /\ dis_steps = iters - 1)

C3_Witness ==
    /\ pc = "dis_step"
    /\ iters = 2
    /\ gen_steps = 2
    /\ dis_steps = 1
    /\ dis_at_fetch # InitDis

\* C4: the loop never stops before it is done unless a failure aborts it,
\* never enters more than E*N loop bodies, has applied one update of each
\* optimizer per completed body, and is done after exactly E*N bodies with
\* E*N updates of each optimizer.
C4_Termination ==
    /\ (pc \notin {"done", "aborted"} => ENABLED Next)
    /\ iters <= TotalSteps
    /\ (pc = "loop" => gen_steps = iters /\ dis_steps = iters)
    /\ (pc = "done" => /\ error = "none"
                       /\ iters = TotalSteps
                       /\ gen_steps = TotalSteps
                       /\ dis_steps = TotalSteps)

C4_Witness ==
    /\ pc = "done"
    /\ NumBatches = MaxBatches
    /\ dis_steps = NumEpochs * MaxBatches

\* report events completed before batch b of epoch e
ReportsBefore(e, b) == e * CeilDiv(NumBatches, ReportEvery) + CeilDiv(b, ReportEvery)
ImageFiles == {n \in 1..Len(files) : files[n][1] = "generated_images/im"}
PlotFiles == {n \in 1..Len(files) : files[n][1] = "loss_images/loss"}

\* C5 as stated: a finished run of T batch-steps has had ceil(T/250) report
\* events, each with one grid image, one plot image, one console line and
\* one entry in each loss list.
C5_Original ==
    pc = "done" =>
        /\ k = CeilDiv(iters, ReportEvery)
        /\ Len(console) = k
        /\ Len(dis_losses) = k /\ Len(gen_losses) = k
        /\ Cardinality(ImageFiles) = k /\ Cardinality(PlotFiles) = k

\* C5 amended: between batch-steps, the report events so far are those of
\* the batch indices 0, 250, 500, ... of every epoch, ceil(N/250) per epoch
\* of N batches and E*ceil(N/250) in a finished run; each has produced one
\* grid image, one plot image, one console line and one entry in each loss
\* list.
C5_ReportCadence ==
    pc \in {"loop", "done"} =>
        /\ k = ReportsBefore(epoch, i)
        /\ Len(console) = k
        /\ \A n \in 1..Len(console) : console[n][2] % ReportEvery = 0
        /\ Len(dis_losses) = k /\ Len(gen_losses) = k
        /\ Cardinality(ImageFiles) = k /\ Cardinality(PlotFiles) = k
        /\ (pc = "done" => k = NumEpochs * CeilDiv(NumBatches, ReportEvery))

C5_Witness ==
    /\ pc = "done"
    /\ k = NumEpochs * CeilDiv(NumBatches, ReportEvery)
    /\ k > NumEpochs
    /\ \E n \in 1..Len(console) : console[n] = <<1, ReportEvery>>

\* C6: k counts the completed report events; the j-th report event wrote
\* generated_images/im<j>.png and then loss_images/loss<j>.png, so the files
\* written are im0, loss0, im1, loss1, ... and no name occurs twice.
C6_ArtifactNumbering ==
    /\ k = Len(files) \div 2
    /\ \A n \in 1..Len(files) :
          files[n] = IF n % 2 = 1
                     THEN <<"generated_images/im", (n - 1) \div 2>>
                     ELSE <<"loss_images/loss", (n - 2) \div 2>>
    /\ \A a, b \in 1..Len(files) : a # b => files[a] # files[b]
    /\ Len(console) \in {k, k + 1}

C6_Witness ==
    /\ k >= 3
    /\ Len(files) = 2 * k
    /\ files[Len(files)] = <<"loss_images/loss", k - 1>>

\* C7 as stated: an I/O failure while writing a report artifact does not
\* abort the run.
C7_IOFailureDoesNotAbort == error = "io" => pc # "aborted"

\* C8: a real batch of another size than batch_size never gets past the
\* discriminator's forward pass; the shape error ends the run there, with
\* nothing enabled afterwards, no discriminator update and no report event
\* for that batch-step.
C8_ShapeMismatchFatal ==
    /\ (data_size \notin {0, BatchSize}
            => pc \in GenPhase \cup {"dis_zero_grad", "dis_forward", "aborted"})
    /\ (error = "shape"
            => /\ pc = "aborted"
               /\ ~ ENABLED Next
               /\ data_size # BatchSize
               /\ gen_steps = iters
               /\ dis_steps = iters - 1
               /\ k = ReportsBefore(epoch, i)
               /\ Len(console) = k)

C8_Witness ==
    /\ error = "shape"
    /\ pc = "aborted"
    /\ iters = MaxBatches
    /\ data_size = BatchSize \div 2

---------------------------------------------------------------------------
(* The upscaler cell *)

\* An image file holds rows of pixels, a pixel being its channel values
\* (8-bit samples; imread hands them over divided by 255).  ndim is the
\* number of axes of the array imread returns: 3 for a colour image, 2 for a
\* single-channel one, whose array has no channel axis.
Black == <<0, 0, 0>>
Tinted == <<255, 0, 3>>
Palette == {Black, Tinted}

RECURSIVE SumSeq(_)
SumSeq(q) == IF q = <<>> THEN 0 ELSE q[1] + SumSeq(Tail(q))

RECURSIVE Flatten(_)
Flatten(qs) == IF qs = <<>> THEN <<>> ELSE qs[1] \o Flatten(Tail(qs))

\* np.ones((n, m))
Ones(n, m) == [r \in 1..n |-> [c \in 1..m |-> 1]]

\* np.mean(im, axis=2): the channel mean of every pixel, as a fraction
Mean2(im) ==
    [r \in 1..Len(im) |->
        [c \in 1..Len(im[r]) |->
            [num |-> SumSeq(im[r][c]), den |-> Len(im[r][c])]]]

Times(x, b) == [num |-> x.num * b, den |-> x.den]

\* the row laid out as m copies of the whole row
KronRow_Tiled(a, b) ==
    Flatten([l \in 1..Len(b) |-> [j \in 1..Len(a) |-> Times(a[j], b[l])]])

\* one row of np.kron(A, B): every entry of a times the row b, side by side
KronRow(a, b) ==
    Flatten([j \in 1..Len(a) |-> [l \in 1..Len(b) |-> Times(a[j], b[l])]])

\* np.kron(A, B): every entry of A times the block B
Kron(A, B) ==
    Flatten([r \in 1..Len(A) |-> [s \in 1..Len(B) |-> KronRow(A[r], B[s])]])

MinOf(S) == CHOOSE x \in S : \A y \in S : x <= y
MaxOf(S) == CHOOSE x \in S : \A y \in S : x >= y

\* plt.imsave(path, im, cmap='gray'): values normalised to their own range,
\* looked up in the colour map, written as RGBA bytes
Imsave(im) ==
    LET vals == {im[r][c].num : r \in 1..Len(im), c \in 1..Len(im[1])}
        lo == MinOf(vals)
        hi == MaxOf(vals)
        byte(v) == IF hi = lo THEN 0
                   ELSE IF ((v - lo) * (MaxByte + 1)) \div (hi - lo) > MaxByte
                        THEN MaxByte
                        ELSE ((v - lo) * (MaxByte + 1)) \div (hi - lo)
    IN [kind |-> "image", ndim |-> 3,
        im |-> [r \in 1..Len(im) |->
                  [c \in 1..Len(im[r]) |->
                      <<byte(im[r][c].num), byte(im[r][c].num),
                        byte(im[r][c].num), MaxByte>>]]]

\* def upscaler(im_path, n=3, m=3): what the call reads, computes and saves,
\* or the exception it raises
Upscaler(file, n, m) ==
    IF file.kind = "unreadable"
    THEN [ok |-> FALSE, err |-> "OSError", n |-> n, m |-> m, src |-> file]
    ELSE IF file.kind = "text"
    THEN [ok |-> FALSE, err |-> "UnidentifiedImageError", n |-> n, m |-> m,
          src |-> file]
    ELSE IF file.ndim < 3
    THEN [ok |-> FALSE, err |-> "AxisError", n |-> n, m |-> m, src |-> file]
    ELSE LET gray == Mean2(file.im)
             out == Kron(gray, Ones(n, m))
         IN [ok |-> TRUE, err |-> "none", n |-> n, m |-> m, src |-> file,
             gray |-> gray, out |-> out, saved |-> Imsave(out)]

ImageFile(im) == [kind |-> "image", ndim |-> 3, im |-> im]
GrayFile == [kind |-> "image", ndim |-> 2, im |-> <<<<<<0>>, <<255>>>>>>]
TextFile == [kind |-> "text", ndim |-> 0, im |-> <<>>]
UnreadableFile == [kind |-> "unreadable", ndim |-> 0, im |-> <<>>]
BadFiles == {GrayFile, TextFile, UnreadableFile}

\* what the directory may hold
DirSamples ==
    {ImageFile(<<<<Tinted>>>>), ImageFile(<<<<Black, Tinted>>>>)} \cup BadFiles

\* every image of at most MaxDim rows and columns over the palette
Images ==
    UNION {[1..h -> [1..w -> Palette]] : h \in 1..MaxDim, w \in 1..MaxDim}

SeqsUpTo(S, n) == UNION {[1..len -> S] : len \in 1..n}

\* for filename in os.listdir(directory): upscaler(os.path.join(...))
UpscaleNext ==
    /\ up_pc = "loop"
    /\ file_idx <= Len(dir_files)
    /\ LET r == Upscaler(dir_files[file_idx], DefaultN, DefaultM)
       IN /\ up_call' = r
          /\ IF r.ok
             THEN /\ dir_files' = [dir_files EXCEPT ![file_idx] = r.saved]
                  /\ up_done' = up_done \cup {file_idx}
                  /\ file_idx' = file_idx + 1
                  /\ up_pc' = up_pc
             ELSE /\ up_pc' = "aborted"
                  /\ UNCHANGED <<dir_files, up_done, file_idx>>
    /\ UNCHANGED train_vars

\* the directory listing is exhausted
UpscaleEnd ==
    /\ up_pc = "loop"
    /\ file_idx > Len(dir_files)
    /\ up_pc' = "done"
    /\ UNCHANGED <<dir_files, file_idx, up_done, up_call, train_vars>>

\* upscaler(path, n, m) called on one file
UpscalerCall ==
    /\ up_pc = "call"
    /\ LET r == Upscaler(dir_files[1], up_call.n, up_call.m)
       IN /\ up_call' = r
          /\ IF r.ok
             THEN /\ dir_files' = <<r.saved>>
                  /\ up_done' = {1}
             ELSE UNCHANGED <<dir_files, up_done>>
    /\ up_pc' = "returned"
    /\ UNCHANGED <<file_idx, train_vars>>

InitUpscaler ==
    /\ TrainInit({BatchSize})
    /\ up_pc = "loop"
    /\ dir_files \in SeqsUpTo(DirSamples, MaxFiles)
    /\ file_idx = 1
    /\ up_done = {}
    /\ up_call = <<>>
NextUpscaler == UpscaleNext \/ UpscaleEnd
SpecUpscaler == InitUpscaler /\ [][NextUpscaler]_vars

InitKron ==
    /\ TrainInit({BatchSize})
    /\ up_pc = "call"
    /\ \E f \in {ImageFile(im) : im \in Images} \cup BadFiles :
          dir_files = <<f>>
    /\ file_idx = 1
    /\ up_done = {}
    /\ \E n \in 1..MaxFactor, m \in 1..MaxFactor : up_call = [n |-> n, m |-> m]
NextKron == UpscalerCall
SpecKron == InitKron /\ [][NextKron]_vars

---------------------------------------------------------------------------
(* Properties of the upscaler cell *)

\* C9 as stated: the directory pass ends only once it has reached every
\* file of the directory, whatever failed on the way.
C9_PerFileFailureNotFatal ==
    up_pc \in {"done", "aborted"} => file_idx >= Len(dir_files)

---------------------------------------------------------------------------
(* Gradient hygiene of the training cell *)

\* C11: when gen_optimizer.step() runs, the gradient held by every generator
\* parameter comes from this batch-step's generator_loss alone, and when
\* dis_optimizer.step() runs, the gradient held by every discriminator
\* parameter comes from this batch-step's discriminator_loss alone; the
\* gradient that generator_loss.backward() left on the discriminator
\* parameters is still there when the generator phase ends and is gone once
\* dis_optimizer.zero_grad() has run.
C11_GradientHygiene ==
    /\ (pc = "gen_step"
            => \A p \in GenParams : grad[p].from = {<<"gen", iters>>})
    /\ (pc = "dis_step"
            => \A p \in DisParams : grad[p].from = {<<"dis", iters>>})
    /\ (pc = "dis_zero_grad"
            => \A p \in DisParams : <<"gen", iters>> \in grad[p].from)
    /\ (pc = "dis_forward"
            => \A p \in DisParams : grad[p] = NoGrad)

C11_Witness ==
    /\ pc = "dis_step"
    /\ iters = 2
    /\ \A p \in DisParams : grad[p].from = {<<"dis", 2>>}
    /\ \A p \in GenParams : grad[p].from = {<<"gen", 2>>}
    /\ \E p \in DisParams : grad[p].val # 0
=============================================================================
